---- MODULE Spec2Model ----
(***************************************************************************)
(* Home panel of the launcher (src/src/assets/js/panels/home.js): the      *)
(* play-control click handler with its suspension points, the shared       *)
(* engine object `launch` and the listeners registered on it, the engine   *)
(* events and their handlers, the server status check and the mods scan.   *)
(*                                                                         *)
(* The event loop is single threaded: one action is one task of the loop,  *)
(* i.e. the code that runs from one genuine suspension (a database read,   *)
(* the status request) or one external event (a click, an engine event)    *)
(* up to the next suspension.  An await on an already settled promise      *)
(* yields only to the microtask queue and therefore does not end the task. *)
(***************************************************************************)
EXTENDS Integers, Sequences, FiniteSets, TLC

\* ------------------------------------------------------------------ bounds
\* Engine starts (calls of launch.Launch) explored in one behaviour.
MaxLaunches == 2
\* Largest player count the status reply reports.
MaxPlayers == 1
\* Largest current / total value of the samples explored by SpecProgress.
MaxSample == 8
\* Largest number of seconds of the dense range explored by SpecTime.
MaxSeconds == 130

\* --------------------------------------------------------------- constants
\* The keys getLaunchOptions reads, in the order of its awaits.
ReadOrder ==
    <<"accounts-selected", "accounts", "ram", "java-path", "java-args", "screen", "launcher">>

\* The await of the click handler that follows launch.Launch(opts).
AfterLaunch == "launcher-after-launch"

AwaitPoints == {ReadOrder[i] : i \in 1..Len(ReadOrder)} \cup {AfterLaunch}

\* Values of launcherSettings.launcher.close ("unset": the field is undefined).
ClosePrefs == {"close-launcher", "close-all", "unset"}

\* State of the mods directory on disk.
\*   "missing"    fs.existsSync is false
\*   "empty"      the listing holds no .jar file
\*   "jars"       the listing holds .jar files
\*   "unreadable" fs.existsSync is true and fs.readdirSync throws
ModsDirs == {"missing", "empty", "jars", "unreadable"}

\* Samples (progress, size) the engine reports in the launch specification.
CheckSamples == {<<10, 100>>}
ProgressSamples == {<<50, 200>>}

\* Seconds the engine reports with an estimated event in the launch specification.
EstimatedSamples == {3661}

VARIABLES
    db,               \* persisted records: [missing, close]
    pending,          \* number of click handlers suspended at each await point
    ui,               \* play button, info text and progress bar
    listeners,        \* launcherSettings captured by each registered listener set
    running,          \* engine runs started whose close event is not yet emitted
    launches,         \* calls of launch.Launch so far
    startsSinceClose, \* calls of launch.Launch since the last handled close event
    overlap,          \* some Launch was called while a session was non-terminal
    engineOpts,       \* options handed to the last launch.Launch (at most one)
    windowHidden,     \* host window hidden by main-window-hide
    status,           \* server status display and the state of initStatusServer
    modsDir,          \* state of the mods directory
    modsListPresent,  \* the panel has a .mods-list element
    modsList,         \* content of the .mods-list element
    last              \* the task that ran last and the signals it sent

vars ==
    <<db, pending, ui, listeners, running, launches, startsSinceClose, overlap,
      engineOpts, windowHidden, status, modsDir, modsListPresent, modsList, last>>

\* ------------------------------------------------------------------ texts
NoPct == [kind |-> "none", n |-> 0]

\* t(key): a translated label without a percentage.
T(key) == [key |-> key, pct |-> NoPct]

\* ((progress / size) * 100).toFixed(0): the quotient of two numbers, which is
\* NaN for 0/0 and an infinity for x/0, printed without decimals.  toFixed
\* rounds the magnitude half up and prints the sign in front of it, also in
\* front of a magnitude that rounds to 0.
RoundHalfUp(a, b) == (200 * a + b) \div (2 * b)

\* The quotient and the product are binary64 operations.  Among the samples
\* explored, these are the pairs (|progress|, size) whose exact value is
\* k + 1/2 and whose computed value lies below it: (23 / 40) * 100 is
\* 57.49999999999999.  For every other sample the computed value rounds as
\* the exact one.
BelowTie == {<<23, 40>>}

toFixed0(a, b) == IF <<a, b>> \in BelowTie THEN RoundHalfUp(a, b) - 1 ELSE RoundHalfUp(a, b)

\* Faulty variant of percentText: the value is truncated, not rounded.
percentTextTruncates(progress, size) ==
    IF size = 0
    THEN IF progress = 0 THEN [kind |-> "NaN", n |-> 0]
         ELSE IF progress > 0 THEN [kind |-> "Infinity", n |-> 0]
         ELSE [kind |-> "-Infinity", n |-> 0]
    ELSE IF progress >= 0
         THEN [kind |-> "num", n |-> (100 * progress) \div size]
         ELSE IF (100 * (-progress)) \div size = 0
              THEN [kind |-> "-0", n |-> 0]
              ELSE [kind |-> "num", n |-> -((100 * (-progress)) \div size)]

percentText(progress, size) ==
    IF size = 0
    THEN IF progress = 0 THEN [kind |-> "NaN", n |-> 0]
         ELSE IF progress > 0 THEN [kind |-> "Infinity", n |-> 0]
         ELSE [kind |-> "-Infinity", n |-> 0]
    ELSE IF progress >= 0
         THEN [kind |-> "num", n |-> toFixed0(progress, size)]
         ELSE IF toFixed0(-progress, size) = 0
              THEN [kind |-> "-0", n |-> 0]
              ELSE [kind |-> "num", n |-> -toFixed0(-progress, size)]

\* ----------------------------------------------------------- ui handlers
updateProgressBar(u, progress, size, text) ==
    [u EXCEPT !.progressBar = "block",
              !.text = [key |-> text, pct |-> percentText(progress, size)],
              !.sent = [progress |-> progress, size |-> size],
              !.value = progress,
              !.max = size]

handleLaunchData(u, launcherSettings) ==
    [u EXCEPT !.progressBar = "none", !.text = T("starting")]

\* Faulty variants of handleLaunchClose: the info text is not reset; the play
\* button is not shown again.
handleLaunchCloseKeepsText(u, launcherSettings) ==
    [u EXCEPT !.progressBar = "none", !.info = "none", !.playBtn = "block"]

handleLaunchCloseKeepsControlHidden(u, launcherSettings) ==
    [u EXCEPT !.progressBar = "none", !.info = "none", !.text = T("verification")]

handleLaunchClose(u, launcherSettings) ==
    [u EXCEPT !.progressBar = "none",
              !.info = "none",
              !.playBtn = "block",
              !.text = T("verification")]

\* ipcRenderer.send("main-window-hide") of handleLaunchData
dataHides(launcherSettings) == IF launcherSettings = "close-launcher" THEN 1 ELSE 0

\* Faulty variant of closeShows: the close handler tests for "close-all".
closeShowsOnCloseAll(launcherSettings) == IF launcherSettings = "close-all" THEN 1 ELSE 0

\* ipcRenderer.send("main-window-show") of handleLaunchClose
closeShows(launcherSettings) == IF launcherSettings = "close-launcher" THEN 1 ELSE 0

\* Faulty variant of Listener: the error listener resets the display as the
\* close listener does.
ListenerErrorResets(ev, arg, u, ls) ==
    CASE ev = "check" -> updateProgressBar(u, arg[1], arg[2], "verification")
      [] ev = "progress" -> updateProgressBar(u, arg[1], arg[2], "download")
      [] ev = "patch" -> [u EXCEPT !.text = T("patch_in_progress")]
      [] ev = "data" -> handleLaunchData(u, ls)
      [] ev = "close" -> handleLaunchClose(u, ls)
      [] ev = "error" -> handleLaunchClose(u, ls)
      [] OTHER -> u

\* The listener of one event: the handler one registered listener set runs.
Listener(ev, arg, u, ls) ==
    CASE ev = "check" -> updateProgressBar(u, arg[1], arg[2], "verification")
      [] ev = "progress" -> updateProgressBar(u, arg[1], arg[2], "download")
      [] ev = "patch" -> [u EXCEPT !.text = T("patch_in_progress")]
      [] ev = "data" -> handleLaunchData(u, ls)
      [] ev = "close" -> handleLaunchClose(u, ls)
      [] OTHER -> u

\* launch.emit(ev, arg): every registered listener runs, in registration order.
RECURSIVE Emit(_, _, _, _)
Emit(ev, arg, u, ls) ==
    IF ls = <<>> THEN u
    ELSE Emit(ev, arg, Listener(ev, arg, u, Head(ls)), Tail(ls))

\* Signals sent by one emitted data / close event: one per listener that sends.
RECURSIVE Hides(_)
Hides(ls) == IF ls = <<>> THEN 0 ELSE dataHides(Head(ls)) + Hides(Tail(ls))

RECURSIVE Shows(_)
Shows(ls) == IF ls = <<>> THEN 0 ELSE closeShows(Head(ls)) + Shows(Tail(ls))

\* -------------------------------------------------------------- mods scan
\* verifyModsBeforeLaunch: the content of .mods-list afterwards, and whether
\* the call throws.
modsThrows(present, dir) == present /\ dir = "unreadable"

\* Faulty variant of verifyModsBeforeLaunch: a missing directory returns
\* without displaying the placeholder.
verifyModsSkipsMissingDir(present, dir, shown) ==
    IF ~present THEN shown
    ELSE CASE dir = "empty" -> "placeholder"
           [] dir = "jars" -> "list"
           [] OTHER -> shown

verifyModsBeforeLaunch(present, dir, shown) ==
    IF ~present THEN shown
    ELSE CASE dir = "missing" -> "placeholder"
           [] dir = "empty" -> "placeholder"
           [] dir = "jars" -> "list"
           [] OTHER -> shown

\* ------------------------------------------------------------ resolution
\* A record is read by database.get(...).value, which throws on an absent record.
readFails(d, key) == d.missing = key

\* The part of getLaunchOptions' result that depends on the records modelled.
getLaunchOptions(d) == [detached |-> (d.close # "close-all")]

\* The tasks the properties tell apart; every other task is recorded as "other".
Tracked ==
    {"init", "click", "click-rejected", "config-error", "launch",
     "check", "progress", "data", "error", "close", "online", "status-error", "reject"}

\* Nothing logged by the estimated listener.
NoTime == [logged |-> FALSE, time |-> 0, h |-> 0, m |-> 0, s |-> 0]

\* Faulty variant of formatTime: the hours are not taken off the minutes.
formatTimeTotalMinutes(time) ==
    LET hours == time \div 3600
        minutes == time \div 60
        seconds == time - hours * 3600 - ((time - hours * 3600) \div 60) * 60
    IN [logged |-> TRUE, time |-> time, h |-> hours, m |-> minutes, s |-> seconds]

\* formatTime(time): the numbers of the string "<h>h <m>m <s>s" that the
\* estimated listener logs, next to the argument it was called with.
formatTime(time) ==
    LET hours == time \div 3600
        minutes == (time - hours * 3600) \div 60
        seconds == time - hours * 3600 - minutes * 60
    IN [logged |-> TRUE, time |-> time, h |-> hours, m |-> minutes, s |-> seconds]

\* Record of the task that ran last: how many listener sets it ran, how many
\* main-window-show and main-window-hide signals it sent, the time it
\* logged, and (for a close event) whether it found the host window hidden.
LastLog(op, delivered, shows, hides, out) ==
    [op |-> IF op \in Tracked THEN op ELSE "other",
     delivered |-> delivered, shows |-> shows, hides |-> hides, out |-> out,
     wasHidden |-> FALSE]

Last(op, delivered, shows, hides) == LastLog(op, delivered, shows, hides, NoTime)

InFlight == LET RECURSIVE Sum(_)
                Sum(S) == IF S = {} THEN 0
                          ELSE LET k == CHOOSE k \in S : TRUE
                               IN pending[k] + Sum(S \ {k})
            IN Sum(AwaitPoints)

\* ------------------------------------------------------------------ Init
\* The state after Home.init: the static texts are set, the status request
\* is under way and the mods list was scanned once, with the directory in any
\* of its states at that time.  modsDir is the directory as the clicks find it.
InitUi ==
    [playBtn |-> "block", info |-> "none", progressBar |-> "none",
     text |-> T("verification"), value |-> 0, max |-> 0,
     sent |-> [progress |-> 0, size |-> 0]]

Init ==
    /\ db \in [missing : {"none"} \cup {ReadOrder[i] : i \in 1..Len(ReadOrder)},
               close : ClosePrefs]
    /\ pending = [k \in AwaitPoints |-> 0]
    /\ ui = InitUi
    /\ listeners = <<>>
    /\ running = 0
    /\ launches = 0
    /\ startsSinceClose = 0
    /\ overlap = FALSE
    /\ engineOpts = <<>>
    /\ windowHidden = FALSE
    /\ status = [pc |-> "pending", text |-> "offline", players |-> "init"]
    /\ modsDir \in ModsDirs
    /\ modsListPresent \in BOOLEAN
    /\ \E d \in ModsDirs : modsList = verifyModsBeforeLaunch(modsListPresent, d, "init")
    /\ last = Last("init", 0, 0, 0)

\* ------------------------------------------------------- the click handler
\* Click on .play-btn: the handler runs verifyModsBeforeLaunch, which has no
\* genuine suspension, and then suspends at the first read of
\* getLaunchOptions.  A throwing scan rejects the handler at line 138.
\* Faulty variant of Click: the control is hidden at the click, before the
\* configuration is resolved.
ClickHidesControlFirst ==
    /\ ui.playBtn = "block"
    /\ launches + InFlight < MaxLaunches
    /\ ui' = [ui EXCEPT !.playBtn = "none", !.info = "block"]
    /\ IF modsThrows(modsListPresent, modsDir)
       THEN /\ last' = Last("click-rejected", 0, 0, 0)
            /\ UNCHANGED <<pending, modsList>>
       ELSE /\ modsList' = verifyModsBeforeLaunch(modsListPresent, modsDir, modsList)
            /\ pending' = [pending EXCEPT ![ReadOrder[1]] = @ + 1]
            /\ last' = Last("click", 0, 0, 0)
    /\ UNCHANGED <<db, listeners, running, launches, startsSinceClose, overlap,
                   engineOpts, windowHidden, status, modsDir, modsListPresent>>

\* Faulty variant of Click: the handler starts resolving the configuration
\* without running verifyModsBeforeLaunch.
ClickSkipsVerification ==
    /\ ui.playBtn = "block"
    /\ launches + InFlight < MaxLaunches
    /\ pending' = [pending EXCEPT ![ReadOrder[1]] = @ + 1]
    /\ last' = Last("click", 0, 0, 0)
    /\ UNCHANGED <<db, ui, listeners, running, launches, startsSinceClose, overlap,
                   engineOpts, windowHidden, status, modsDir, modsListPresent, modsList>>

Click ==
    /\ ui.playBtn = "block"
    /\ launches + InFlight < MaxLaunches
    /\ IF modsThrows(modsListPresent, modsDir)
       THEN /\ last' = Last("click-rejected", 0, 0, 0)
            /\ UNCHANGED <<pending, modsList>>
       ELSE /\ modsList' = verifyModsBeforeLaunch(modsListPresent, modsDir, modsList)
            /\ pending' = [pending EXCEPT ![ReadOrder[1]] = @ + 1]
            /\ last' = Last("click", 0, 0, 0)
    /\ UNCHANGED <<db, ui, listeners, running, launches, startsSinceClose, overlap,
                   engineOpts, windowHidden, status, modsDir, modsListPresent>>

\* One of the first six reads of getLaunchOptions settles: the handler throws
\* on an absent record and suspends at the next read otherwise.
ResolveRead(i) ==
    /\ pending[ReadOrder[i]] > 0
    /\ IF readFails(db, ReadOrder[i])
       THEN /\ pending' = [pending EXCEPT ![ReadOrder[i]] = @ - 1]
            /\ last' = Last("config-error", 0, 0, 0)
       ELSE /\ pending' = [pending EXCEPT ![ReadOrder[i]] = @ - 1,
                                          ![ReadOrder[i + 1]] = @ + 1]
            /\ last' = Last("read", 0, 0, 0)
    /\ UNCHANGED <<db, ui, listeners, running, launches, startsSinceClose, overlap,
                   engineOpts, windowHidden, status, modsDir, modsListPresent, modsList>>

\* The last read of getLaunchOptions settles: the options are assembled, the
\* control is hidden, the info text shown, the engine started, and the handler
\* suspends at the read of the launcher settings (lines 167-195, 140-148).
ResolveAndLaunch ==
    /\ pending["launcher"] > 0
    /\ IF readFails(db, "launcher")
       THEN /\ pending' = [pending EXCEPT !["launcher"] = @ - 1]
            /\ last' = Last("config-error", 0, 0, 0)
            /\ UNCHANGED <<ui, running, launches, startsSinceClose, overlap, engineOpts>>
       ELSE /\ pending' = [pending EXCEPT !["launcher"] = @ - 1, ![AfterLaunch] = @ + 1]
            /\ ui' = [ui EXCEPT !.playBtn = "none", !.info = "block"]
            /\ engineOpts' = <<getLaunchOptions(db)>>
            /\ running' = running + 1
            /\ launches' = launches + 1
            /\ startsSinceClose' = startsSinceClose + 1
            /\ overlap' = (overlap \/ startsSinceClose > 0)
            /\ last' = Last("launch", 0, 0, 0)
    /\ UNCHANGED <<db, listeners, windowHidden, status, modsDir, modsListPresent, modsList>>

\* The read at line 148 settles and setupLaunchListeners registers one more
\* listener set on the shared engine object, capturing the settings just read.
RegisterListeners ==
    /\ pending[AfterLaunch] > 0
    /\ pending' = [pending EXCEPT ![AfterLaunch] = @ - 1]
    /\ IF readFails(db, "launcher")
       THEN /\ last' = Last("settings-error", 0, 0, 0)
            /\ UNCHANGED listeners
       ELSE /\ listeners' = Append(listeners, db.close)
            /\ last' = Last("register", 0, 0, 0)
    /\ UNCHANGED <<db, ui, running, launches, startsSinceClose, overlap, engineOpts,
                   windowHidden, status, modsDir, modsListPresent, modsList>>

\* The settings panel stores another close behaviour.
SetClose(p) ==
    /\ p # db.close
    /\ db' = [db EXCEPT !.close = p]
    /\ last' = Last("settings", 0, 0, 0)
    /\ UNCHANGED <<pending, ui, listeners, running, launches, startsSinceClose, overlap,
                   engineOpts, windowHidden, status, modsDir, modsListPresent, modsList>>

\* ------------------------------------------------------------ engine events
\* The engine emits an event other than close: every registered listener runs.
EngineEvent(ev, arg) ==
    /\ running > 0
    /\ ui' = Emit(ev, arg, ui, listeners)
    /\ LET hides == IF ev = "data" THEN Hides(listeners) ELSE 0
           out == IF ev = "estimated" /\ listeners # <<>> THEN formatTime(arg) ELSE NoTime
       IN /\ windowHidden' = (windowHidden \/ hides > 0)
          /\ last' = LastLog(ev, Len(listeners), 0, hides, out)
    /\ UNCHANGED <<db, pending, listeners, running, launches, startsSinceClose, overlap,
                   engineOpts, status, modsDir, modsListPresent, modsList>>

EngineCheck == \E s \in CheckSamples : EngineEvent("check", s)

EngineProgress == \E s \in ProgressSamples : EngineEvent("progress", s)

EnginePatch == EngineEvent("patch", <<>>)

EngineData == EngineEvent("data", <<>>)

EngineExtract == EngineEvent("extract", <<>>)

EngineEstimated == \E time \in EstimatedSamples : EngineEvent("estimated", time)

EngineSpeed == EngineEvent("speed", <<>>)

EngineError == EngineEvent("error", <<>>)

\* The engine emits close: one run of the engine ends.
EngineClose ==
    /\ running > 0
    /\ running' = running - 1
    /\ ui' = Emit("close", <<>>, ui, listeners)
    /\ startsSinceClose' = IF listeners = <<>> THEN startsSinceClose ELSE 0
    /\ LET shows == Shows(listeners)
       IN /\ windowHidden' = (windowHidden /\ shows = 0)
          /\ last' = [Last("close", Len(listeners), shows, 0) EXCEPT !.wasHidden = windowHidden]
    /\ UNCHANGED <<db, pending, listeners, launches, overlap, engineOpts, status,
                   modsDir, modsListPresent, modsList>>

\* ------------------------------------------------------------ server status
\* new Status(ip, port).getStatus() settles.  outcome is
\*   "online"  resolved without an error field, n players connected
\*   "error"   resolved with an error field (the shape a timeout takes too)
\*   "reject"  the promise rejects or the call throws
initStatusServer(st, outcome, n) ==
    CASE outcome = "online" ->
           [pc |-> "done", text |-> "server_online", players |-> ToString(n)]
      [] outcome = "error" ->
           [pc |-> "done", text |-> "server_unavailable", players |-> "0"]
      [] OTHER -> [st EXCEPT !.pc = "rejected"]

StatusSettles ==
    /\ status.pc = "pending"
    /\ \E outcome \in {"online", "error", "reject"}, n \in 0..MaxPlayers :
          /\ (outcome # "online" => n = 0)
          /\ status' = initStatusServer(status, outcome, n)
          /\ last' = Last(IF outcome = "error" THEN "status-error" ELSE outcome, 0, 0, 0)
    /\ UNCHANGED <<db, pending, ui, listeners, running, launches, startsSinceClose, overlap,
                   engineOpts, windowHidden, modsDir, modsListPresent, modsList>>

Next ==
    \/ Click
    \/ \E i \in 1..(Len(ReadOrder) - 1) : ResolveRead(i)
    \/ ResolveAndLaunch
    \/ RegisterListeners
    \/ \E p \in ClosePrefs : SetClose(p)
    \/ EngineCheck
    \/ EngineProgress
    \/ EnginePatch
    \/ EngineData
    \/ EngineExtract
    \/ EngineEstimated
    \/ EngineSpeed
    \/ EngineError
    \/ EngineClose

\* The launch orchestration.  The panel is given the element .mods-list unless
\* the directory is unreadable, the case in which its absence changes the
\* course of a click.
InitLaunch == Init /\ (modsListPresent \/ modsDir = "unreadable")

Spec == InitLaunch /\ [][Next]_vars

\* The launch orchestration under a fair event loop: a settled read is
\* eventually followed by the continuation of the handler that awaits it.
\* Clicks, engine events and changes of the settings are not obliged to happen.
Continue ==
    \/ \E i \in 1..(Len(ReadOrder) - 1) : ResolveRead(i)
    \/ ResolveAndLaunch
    \/ RegisterListeners

SpecFair == Spec /\ WF_vars(Continue)

\* The server status check, which shares no state with the orchestration.
SpecStatus == Init /\ [][StatusSettles]_vars

\* --------------------------------------------------------- progress samples
\* A session under way: one click handler ran to its end, so the engine is
\* started and one listener set is registered.  The engine then reports
\* samples of the grid -MaxSample..MaxSample for progress, 0..MaxSample for
\* size.
InitProgress ==
    /\ db \in [missing : {"none"}, close : ClosePrefs]
    /\ pending = [k \in AwaitPoints |-> 0]
    /\ ui = [InitUi EXCEPT !.playBtn = "none", !.info = "block"]
    /\ listeners = <<db.close>>
    /\ running = 1
    /\ launches = 1
    /\ startsSinceClose = 1
    /\ overlap = FALSE
    /\ engineOpts = <<getLaunchOptions(db)>>
    /\ windowHidden = FALSE
    /\ status = [pc |-> "pending", text |-> "offline", players |-> "init"]
    /\ modsDir = "jars"
    /\ modsListPresent = TRUE
    /\ modsList = "list"
    /\ last = Last("register", 0, 0, 0)

\* Samples beyond that grid: a tie whose computed value lies below it, with
\* either sign; a tie computed exactly; a negative value that rounds to 0.
EdgeSamples == {<<23, 40>>, <<-23, 40>>, <<1, 200>>, <<-1, 201>>}

Samples == (((-MaxSample)..MaxSample) \X (0..MaxSample)) \cup EdgeSamples

SampleCheck == \E s \in Samples : EngineEvent("check", s)

SampleProgress == \E s \in Samples : EngineEvent("progress", s)

SpecProgress == InitProgress /\ [][SampleCheck \/ SampleProgress]_vars

\* ------------------------------------------------------------ estimated time
\* The engine reports estimated times during a session under way: every
\* number of seconds up to MaxSeconds, and values around the hour and the day.
TimeSamples == (0..MaxSeconds) \cup {3599, 3600, 3601, 3661, 7325, 86399, 90061}

SampleEstimated == \E time \in TimeSamples : EngineEvent("estimated", time)

SpecTime == InitProgress /\ [][SampleEstimated]_vars

\* ================================================================ properties

\* The settings captured by the listener set registered last.
SessionPref == listeners[Len(listeners)]

\* A close event that was delivered to the listeners of its own session, in a
\* behaviour in which no two sessions overlapped.
OwnCloseHandled ==
    /\ last.op = "close"
    /\ last.delivered > 0
    /\ Len(listeners) = launches
    /\ ~overlap

\* C1: single-session exclusivity: the engine is never started twice without
\* a close event handled between the two starts, whatever the interleaving of
\* the clicks on the play control.
C1_SingleSession == startsSinceClose <= 1

\* C2: a close event of a session whose close behaviour is "close-launcher"
\* sends exactly one main-window-show signal, however many sessions were
\* launched before on the same engine object.  Stated for close events that
\* reach the session's own listeners in behaviours without overlapping
\* sessions.
C2_ExactlyOneShow ==
    (OwnCloseHandled /\ SessionPref = "close-launcher") => last.shows = 1

\* C3: a close event of a session whose close behaviour is "close-all" or
\* unset sends no main-window-show signal, whatever the earlier sessions were
\* launched with.
C3_NoShowUnlessCloseLauncher ==
    (OwnCloseHandled /\ SessionPref \in {"close-all", "unset"}) => last.shows = 0

\* C4: after a close event is handled the launch control is visible, the
\* progress bar hidden, the info text hidden and reset to the verification
\* label, whatever events preceded the close.
C4_CloseResetsUi ==
    (last.op = "close" /\ last.delivered > 0) =>
        /\ ui.playBtn = "block"
        /\ ui.progressBar = "none"
        /\ ui.info = "none"
        /\ ui.text = T("verification")

\* A handled close after check(10,100) and progress(50,200) were handled.
C4_Witness ==
    /\ last.op = "close"
    /\ last.delivered > 0
    /\ ui.value = 50
    /\ ui.max = 200
    /\ ui.playBtn = "block"
    /\ ui.text = T("verification")

\* C5: once a session is closed a new attempt succeeds: the handled close
\* leaves the launch control visible and clickable, and every start of the
\* engine is given options resolved from the records as they are at that start.
C5_RelaunchAfterClosed ==
    /\ (last.op = "close" /\ last.delivered > 0 /\ launches + InFlight < MaxLaunches)
          => ENABLED Click
    /\ last.op = "launch" => engineOpts = <<[detached |-> (db.close # "close-all")]>>

\* The engine started a second time, after the first session was closed.
C5_Witness ==
    /\ last.op = "launch"
    /\ launches = 2
    /\ ~overlap
    /\ startsSinceClose = 1
    /\ running = 1

C7_StatusFailureShowsUnavailable ==
    last.op \in {"status-error", "reject"} =>
        /\ status.pc = "done"
        /\ status.text = "server_unavailable"
        /\ status.players = "0"

\* C8: a click that scans a mods directory that does not exist displays the
\* "no mods found" placeholder and the handler is not rejected.
C8_MissingDirIsEmptyInventory ==
    (modsListPresent /\ modsDir = "missing" /\ last.op \in {"click", "click-rejected"}) =>
        /\ last.op = "click"
        /\ modsList = "placeholder"
        /\ InFlight > 0

C8_Witness ==
    /\ last.op = "click"
    /\ modsListPresent
    /\ modsDir = "missing"
    /\ modsList = "placeholder"

\* C9: a failure of the directory listing is absorbed into the empty-inventory
\* display and the click handler goes on to start the engine.
C9_ScanFailureAbsorbed ==
    (modsListPresent /\ modsDir = "unreadable" /\ last.op \in {"click", "click-rejected"}) =>
        /\ last.op = "click"
        /\ modsList = "placeholder"

\* C10: a check or progress event with total 0 displays 0%.
C10_ZeroTotalShowsZero ==
    (last.op \in {"check", "progress"} /\ last.delivered > 0 /\ ui.max = 0) =>
        ui.text.pct = [kind |-> "num", n |-> 0]

\* The sample and the percentage displayed after a handled check or progress
\* event with a total above 0.
SampleShown == last.op \in {"check", "progress"} /\ last.delivered > 0 /\ ui.max > 0

\* round(a / b * 100) of the exact quotient, ties away from zero.
ExactRound(a, b) == IF a >= 0 THEN RoundHalfUp(a, b) ELSE -RoundHalfUp(-a, b)

\* C11 as stated, on the samples with current >= 0: for total > 0 the
\* percentage displayed is round(current / total * 100), shown as an integer,
\* and lies in [0, 100] whenever 0 <= current <= total.
C11_PercentIsRounded ==
    (SampleShown /\ ui.value >= 0) =>
        /\ ui.text.pct = [kind |-> "num", n |-> ExactRound(ui.value, ui.max)]
        /\ (0 <= ui.value /\ ui.value <= ui.max) => (0 <= ui.text.pct.n /\ ui.text.pct.n <= 100)

\* C11 as amended: for total > 0 the percentage displayed is an integer
\* nearest to current / total * 100, either neighbour at an exact tie, a
\* negative value that rounds to 0 being shown as "-0"; it lies in [0, 100]
\* whenever 0 <= current <= total.
C11_PercentIsNearest ==
    SampleShown =>
        LET pct == ui.text.pct
            off == pct.n * ui.max - 100 * ui.value
        IN /\ pct.kind \in {"num", "-0"}
           /\ 2 * off <= ui.max
           /\ -(2 * off) <= ui.max
           /\ pct.kind = "-0" => (ui.value < 0 /\ pct.n = 0)
           /\ (0 <= ui.value /\ ui.value <= ui.max) =>
                 (pct.kind = "num" /\ 0 <= pct.n /\ pct.n <= 100)

\* A tie shown rounded up: (1, 8) displays 13.
C11_Witness ==
    /\ SampleShown
    /\ ui.value = 1
    /\ ui.max = 8
    /\ ui.text.pct = [kind |-> "num", n |-> 13]

\* C12: for seconds >= 0 formatTime yields "Hh Mm Ss" with
\* H = floor(seconds / 3600), M = floor((seconds mod 3600) / 60),
\* S = seconds mod 60, so that H*3600 + M*60 + S = seconds, 0 <= M < 60 and
\* 0 <= S < 60.
C12_FormatTime ==
    last.out.logged =>
        LET t == last.out.time
        IN /\ last.out.h = t \div 3600
           /\ last.out.m = (t % 3600) \div 60
           /\ last.out.s = t % 60
           /\ last.out.h * 3600 + last.out.m * 60 + last.out.s = t
           /\ 0 <= last.out.m /\ last.out.m < 60
           /\ 0 <= last.out.s /\ last.out.s < 60

\* formatTime(3661) logged as "1h 1m 1s".
C12_Witness ==
    /\ last.out.logged
    /\ last.out.time = 3661
    /\ last.out.h = 1
    /\ last.out.m = 1
    /\ last.out.s = 1

\* C13: every attempt that got past its click, and so every start of the
\* engine, was preceded by a completed run of verifyModsBeforeLaunch on the
\* directory, which did not throw; and the display is what one more run on
\* the unchanged directory would leave (the verification is idempotent).
C13_VerifiedBeforeLaunch ==
    (launches > 0 \/ InFlight > 0) =>
        /\ ~modsThrows(modsListPresent, modsDir)
        /\ modsList = verifyModsBeforeLaunch(modsListPresent, modsDir, modsList)
        /\ modsListPresent => modsList # "init"

\* The engine started by the second attempt, whose verification ran again on
\* the unchanged directory and left the same list.
C13_Witness ==
    /\ last.op = "launch"
    /\ launches = 2
    /\ modsListPresent
    /\ modsDir = "jars"
    /\ modsList = "list"

\* C14: while a session is non-terminal the launch control is hidden, and
\* only the handling of a close event makes it visible again.
C14_ControlHiddenWhileActive ==
    [][/\ running' > 0 => ui'.playBtn = "none"
       /\ (ui.playBtn = "none" /\ ui'.playBtn = "block") =>
             (last'.op = "close" /\ last'.delivered > 0)]_vars

\* C15: handling an error event leaves the display as it was and sends no
\* hide or show signal; the control becomes visible again by a handled close
\* event only.
C15_ErrorLeavesUi ==
    [][/\ last'.op = "error" =>
             /\ ui' = ui
             /\ windowHidden' = windowHidden
             /\ last'.shows = 0
             /\ last'.hides = 0
       /\ (ui.playBtn = "none" /\ ui'.playBtn = "block") => last'.op = "close"]_vars

\* An error event handled while the download progress is displayed.
C15_Witness ==
    /\ last.op = "error"
    /\ last.delivered > 0
    /\ ui.playBtn = "none"
    /\ ui.progressBar = "block"
    /\ ui.text.key = "download"

\* C16: no engine event of a session is dropped: every event the engine emits
\* after its start runs the handlers.
C16_NoEventDropped ==
    last.op \in {"check", "progress", "data", "error", "close"} => last.delivered > 0

\* The display of a closed session.
UiClosed == ui.playBtn = "block" /\ ui.progressBar = "none" /\ ui.info = "none"

\* C17: once the engine has emitted a close event the display eventually is
\* that of a closed session, under a fair event loop.
C17_CloseLeadsToClosed == (last.op = "close") ~> UiClosed

\* A data event that was delivered to the listeners of its own session, in a
\* behaviour in which no two sessions overlapped.
OwnDataHandled ==
    /\ last.op = "data"
    /\ last.delivered > 0
    /\ Len(listeners) = launches
    /\ ~overlap

\* C18: a handled data event hides the progress bar, sets the label to
\* "starting" and sends main-window-hide if and only if the close behaviour
\* of the current session is "close-launcher".
C18_DataHidesIffCloseLauncher ==
    OwnDataHandled =>
        /\ ui.progressBar = "none"
        /\ ui.text = T("starting")
        /\ (last.hides > 0) <=> (SessionPref = "close-launcher")

\* C19: after a check or progress event the stored sample, in the progress bar
\* and in the pair reported to the host window, satisfies
\* 0 <= current <= total.
C19_SampleClamped ==
    (last.op \in {"check", "progress"} /\ last.delivered > 0) =>
        /\ 0 <= ui.sent.progress /\ ui.sent.progress <= ui.sent.size
        /\ 0 <= ui.value /\ ui.value <= ui.max

\* C20: a close event that finds the host window hidden sends at least one
\* main-window-show, so that the window is not left hidden after a session
\* is closed, whatever the preferences of the sessions were.
C20_HidePairedWithShow ==
    /\ (last.op = "close" /\ last.wasHidden) => last.shows >= 1
    /\ last.op = "close" => ~windowHidden

\* The window, hidden during a second session whose own preference is not
\* "close-launcher", shown again by that session's close event.
C20_Witness ==
    /\ last.op = "close"
    /\ last.wasHidden
    /\ last.shows >= 1
    /\ ~windowHidden
    /\ Len(listeners) = 2
    /\ SessionPref # "close-launcher"

====
